---- MODULE Spec2Model ----
(***************************************************************************)
(* A model of the terminal Snake game of src/main.py: the value types      *)
(* (Coordinate, Snake, Playground, Gameplay), the tick loop of main() and  *)
(* the float arithmetic of the speed field.                                *)
(***************************************************************************)
EXTENDS Integers, Sequences, FiniteSets, TLC

VARIABLES
    pc,             \* position of main(): start, render, ..., exited; "unit" in the harnesses
    exc,            \* the exception in flight ("none" when there is none)
    max_size,       \* Playground.max_size, <<rows, cols>>
    queue,          \* Snake.queue, head first
    direction,      \* Snake.direction
    bait,           \* Gameplay.bait (None until the first create_bait)
    current_speed,  \* Gameplay.__current_speed, a binary64 value
    current_score,  \* Gameplay.__current_score
    message,        \* the end message on the screen
    status,         \* the exit status of the process
    display,        \* the terminal: "curses" while curses.wrapper holds it, then "restored"
    key,            \* what this tick's screen.getch() returned, until the tick ends
    t0,             \* history: the game state when the current tick began
    eaten,          \* history: number of baits eaten so far
    ticks,          \* history: number of loop iterations begun
    coast,          \* history: iterations begun since the direction last changed
    op,             \* harness: the last method called
    arg,            \* harness: the argument it was given
    ret             \* harness: what it returned

vars == <<pc, exc, max_size, queue, direction, bait, current_speed,
          current_score, message, status, display, key, t0, eaten, ticks, coast,
          op, arg, ret>>

\* Python's None, where a Coordinate is expected
None == <<>>

----------------------------------------------------------------------------
(* Python float: IEEE-754 binary64, positive values only.                  *)
(* A value is [m |-> limbs, e |-> exponent], worth M * 2^e with M the      *)
(* integer whose base-2^13 digits are m (least significant first).         *)
(* Normal values have 2^52 <= M < 2^53; subnormal ones have e = MinExp.    *)

LimbBase == 2^13
MinExp == -1074
Zero5 == <<0, 0, 0, 0, 0>>

RECURSIVE Normalize(_, _)
\* carry propagation over column sums, least significant first
Normalize(cols, carry) ==
    IF cols = <<>> THEN <<>>
    ELSE LET t == Head(cols) + carry
         IN  <<t % LimbBase>> \o Normalize(Tail(cols), t \div LimbBase)

RECURSIVE ColumnSum(_, _, _, _)
\* sum of a[i] * b[k + 1 - i] for i in 1..n
ColumnSum(a, b, k, n) ==
    IF n = 0 THEN 0
    ELSE ColumnSum(a, b, k, n - 1)
         + (IF k + 1 - n \in 1..Len(b) THEN a[n] * b[k + 1 - n] ELSE 0)

\* exact product of two 5-limb integers, 10 limbs
MulLimbs(a, b) ==
    Normalize([k \in 1..10 |-> ColumnSum(a, b, k, 5)], 0)

RECURSIVE DivSmall(_, _, _)
\* long division of a limb sequence (most significant first) by a small q:
\* <<quotient limbs (most significant first), remainder>>
DivSmall(msf, q, r) ==
    IF msf = <<>> THEN <<<<>>, r>>
    ELSE LET t == r * LimbBase + Head(msf)
             rest == DivSmall(Tail(msf), q, t % q)
         IN  <<<<t \div q>> \o rest[1], rest[2]>>

Reverse(s) == [i \in 1..Len(s) |-> s[Len(s) + 1 - i]]

IsOdd(limbs) == limbs[1] % 2 = 1

\* limbs + 1
Increment(limbs) == Normalize([i \in 1..Len(limbs) |-> limbs[i] + (IF i = 1 THEN 1 ELSE 0)], 0)

\* limbs \div 2
Halve(limbs) ==
    [i \in 1..Len(limbs) |->
        (limbs[i] \div 2)
        + (IF i < Len(limbs) THEN (limbs[i + 1] % 2) * (LimbBase \div 2) ELSE 0)]

\* round to nearest, ties to even: q is the truncated value, guard the first
\* dropped bit, sticky whether any lower dropped bit is set
RoundHalfEven(q, guard, sticky) ==
    IF guard /\ (sticky \/ IsOdd(q)) THEN Increment(q) ELSE q

\* a rounded 5-limb significand that reached 2^53 is renormalised
Renormalize(m, e) ==
    IF m[5] >= 2 THEN [m |-> Halve(m), e |-> e + 1] ELSE [m |-> m, e |-> e]

\* the float literal p/(10^d) for p < 10^d, e.g. 0.1 and 0.99: the binary64
\* nearest to the decimal, significand round(p * 2^k / q) with 2^52 <= . < 2^53
FloatLiteral(p, q, k) ==
    LET num == Normalize([i \in 1..6 |-> IF i = 5 THEN p * 2^(k - 52) ELSE 0], 0)
        d == DivSmall(Reverse(num), q, 0)
        quo == SubSeq(Reverse(d[1]), 1, 5)
        r == d[2]
    IN  Renormalize(RoundHalfEven(quo, 2 * r >= q, 2 * r > q), -k)

\* x * y in binary64 for a normal y; x normal or subnormal
FloatMul(x, y) ==
    LET p == MulLimbs(x.m, y.m)
        q == SubSeq(p, 5, 9)                       \* p \div 2^52
        low == SubSeq(p, 1, 4)                     \* p % 2^52
        e2 == x.e + y.e + 52
        shift53 == q[5] >= 2 \/ e2 < MinExp        \* 106-bit product, or underflow
        guard52 == low[4] >= LimbBase \div 2
        sticky52 == low[4] % (LimbBase \div 2) # 0 \/ SubSeq(low, 1, 3) # <<0, 0, 0>>
    IN  IF shift53
        THEN Renormalize(RoundHalfEven(Halve(q), IsOdd(q), low # <<0, 0, 0, 0>>), e2 + 1)
        ELSE Renormalize(RoundHalfEven(q, guard52, sticky52), e2)

RECURSIVE LimbsLess(_, _, _)
\* a < b, compared from limb n down
LimbsLess(a, b, n) ==
    IF n = 0 THEN FALSE
    ELSE a[n] < b[n] \/ (a[n] = b[n] /\ LimbsLess(a, b, n - 1))

FloatLess(x, y) == x.e < y.e \/ (x.e = y.e /\ LimbsLess(x.m, y.m, 5))

FloatPositive(x) == x.m # Zero5

----------------------------------------------------------------------------
(* Coordinate, Snake, Playground                                           *)

\* Coordinate.__add__
Add(a, b) == <<a[1] + b[1], a[2] + b[2]>>

\* the comprehension without reversed(): the head next to the position
SnakeQueueForward(length, position) ==
    [k \in 1..length |-> Add(position, <<1, k>>)]

\* Snake.__init__: position + (1, i + 1) for i = length - 1 down to 0
SnakeQueue(length, position) ==
    [k \in 1..length |-> Add(position, <<1, (length - k) + 1>>)]

\* Snake.head
head(q) == q[1]

\* Snake.body: every segment but the first
body(q) == SubSeq(q, 2, Len(q))

\* move that forgets to pop the tail
move_without_pop(q, d) ==
    [queue |-> <<Add(q[1], d)>> \o q, raised |-> FALSE]

\* Snake.move: pop the tail, then push queue[0] + direction at the front;
\* queue[0] raises IndexError when the pop emptied the deque
move(q, d) ==
    LET popped == SubSeq(q, 1, Len(q) - 1)
    IN  IF popped = <<>>
        THEN [queue |-> popped, raised |-> TRUE]
        ELSE [queue |-> <<Add(popped[1], d)>> \o popped, raised |-> FALSE]

\* appendleft instead of append: the bait becomes the head
eat_at_front(q, b) == <<b>> \o q

\* eat that overwrites the tail instead of appending
eat_overwrites(q, b) == SubSeq(q, 1, Len(q) - 1) \o <<b>>

\* Snake.eat
eat(q, b) == Append(q, b)

\* Playground.center
center(size) == <<size[1] \div 2, size[2] \div 2>>

\* random_point with randint(1, max - 1): one too far
random_point_upto_wall(size) == (1..(size[1] - 1)) \X (1..(size[2] - 1))

\* Playground.random_point: the points random.randint can produce (none when
\* a range is empty and randint raises ValueError)
random_point(size) == (1..(size[1] - 2)) \X (1..(size[2] - 2))

----------------------------------------------------------------------------
(* Gameplay                                                                *)

SCORE_MULTIPLIER == 2
SPEED_MULTIPLIER == FloatLiteral(99, 100, 53)
InitialSpeed == FloatLiteral(1, 10, 56)

DIRECTIONS ==
    [k \in {"KEY_UP", "KEY_DOWN", "KEY_LEFT", "KEY_RIGHT"} |->
        CASE k = "KEY_UP" -> <<-1, 0>>
          [] k = "KEY_DOWN" -> <<1, 0>>
          [] k = "KEY_LEFT" -> <<0, -1>>
          [] k = "KEY_RIGHT" -> <<0, 1>>]

\* DIRECTIONS.get(key, None)
DirectionsGet(ch) == IF ch \in DOMAIN DIRECTIONS THEN DIRECTIONS[ch] ELSE None

DirectionSet == {DIRECTIONS[k] : k \in DOMAIN DIRECTIONS}

\* check_boundary without the walls
check_boundary_self_only(q, size) ==
    \E i \in 1..Len(body(q)) : body(q)[i] = head(q)

\* check_boundary without the test of the column
check_boundary_rows_only(q, size) ==
    \/ \E i \in 1..Len(body(q)) : body(q)[i] = head(q)
    \/ head(q)[1] \in {0, size[1] - 1}

\* check_boundary that takes the extent itself for the last column
check_boundary_off_by_one(q, size) ==
    \/ \E i \in 1..Len(body(q)) : body(q)[i] = head(q)
    \/ head(q)[1] \in {0, size[1] - 1}
    \/ head(q)[2] \in {1, size[2] - 1}

\* Gameplay.check_boundary
check_boundary(q, size) ==
    \/ \E i \in 1..Len(body(q)) : body(q)[i] = head(q)
    \/ head(q)[1] \in {0, size[1] - 1}
    \/ head(q)[2] \in {0, size[2] - 1}

\* Gameplay.create_bait: the baits it can set
create_bait(size) == random_point(size)

\* increase_speed that drops the result
increase_speed_dropped(speed) == speed

\* Gameplay.increase_speed
increase_speed(speed) == FloatMul(speed, SPEED_MULTIPLIER)

\* a score that counts the baits
increase_score_linear(score) == score + 1

\* increase_score without the max(1, .)
increase_score_no_floor(score) == score * SCORE_MULTIPLIER

\* Gameplay.increase_score
increase_score(score) ==
    IF score * SCORE_MULTIPLIER > 1 THEN score * SCORE_MULTIPLIER ELSE 1

\* a bait under any segment counts as eaten
did_ate_bait_anywhere(q, b) == \E i \in 1..Len(q) : q[i] = b

\* Gameplay.did_ate_bait
did_ate_bait(q, b) == head(q) = b

\* every mapped key is allowed
is_direction_allowed_any(next_direction, d) == next_direction # None

\* is_direction_allowed with "and" for "or"
is_direction_allowed_and(next_direction, d) ==
    IF next_direction = None THEN FALSE
    ELSE next_direction[1] # -(d[1]) /\ next_direction[2] # -(d[2])

\* Gameplay.is_direction_allowed
is_direction_allowed(next_direction, d) ==
    IF next_direction = None THEN FALSE
    ELSE next_direction[1] # -(d[1]) \/ next_direction[2] # -(d[2])

----------------------------------------------------------------------------
(* main(): the game                                                        *)

InitLength == 15
MaxTicks == 5

\* the runs are cut at this many baits eaten: the score doubles with each
MaxEats == 6

\* terminal extents screen.getmaxyx() may report
Sizes == {<<5, 36>>, <<5, 20>>, <<2, 36>>}

\* what screen.getch() may return; NoKey is -1, no key pending
NoKey == "none"
Keys == DOMAIN DIRECTIONS \cup {"other"}

LoopPcs == {"render", "check", "eat", "draw", "move", "poll", "sleep"}

NoMessage == [kind |-> "none", score |-> 0]

Snapshot == [queue |-> queue, direction |-> direction, bait |-> bait,
             score |-> current_score, speed |-> current_speed]

game == <<max_size, queue, direction, bait, current_speed, current_score>>
harness == <<op, arg, ret>>

\* lines 148-159: the playground, the snake and the gameplay are constructed
Init ==
    /\ pc = "start"
    /\ exc = "none"
    /\ max_size \in Sizes
    /\ queue = SnakeQueue(InitLength, center(max_size))
    /\ direction = DIRECTIONS["KEY_RIGHT"]
    /\ bait = None
    /\ current_speed = InitialSpeed
    /\ current_score = 0
    /\ message = NoMessage
    /\ status = -1
    /\ display = "curses"
    /\ coast = 0
    /\ key = NoKey
    /\ t0 = [queue |-> queue, direction |-> direction, bait |-> bait,
             score |-> current_score, speed |-> current_speed]
    /\ eaten = 0
    /\ ticks = 0
    /\ op = "main"
    /\ arg = None
    /\ ret = FALSE

\* lines 160-162: the first create_bait, outside the try
Start ==
    /\ pc = "start"
    /\ IF create_bait(max_size) = {}
       THEN bait' = bait /\ exc' = "ValueError" /\ pc' = "propagate"
       ELSE \E p \in create_bait(max_size) : bait' = p /\ exc' = exc /\ pc' = "render"
    /\ UNCHANGED <<max_size, queue, direction, current_speed, current_score,
                   message, status, display, key, t0, eaten, ticks, coast, harness>>

\* lines 166-170: erase, border, score text, bait glyph
RenderStep(limit) ==
    /\ pc = "render"
    /\ ticks < limit
    /\ pc' = "check"
    /\ t0' = Snapshot
    /\ ticks' = ticks + 1
    /\ coast' = coast + 1
    /\ UNCHANGED <<exc, game, message, status, display, key, eaten, harness>>

Render == RenderStep(MaxTicks)

\* the check placed after the eating test: a head on the bait is not checked
CheckUnlessEating ==
    /\ pc = "check"
    /\ IF check_boundary(queue, max_size) /\ ~did_ate_bait(queue, bait)
       THEN exc' = "SnakeDied" /\ pc' = "except"
       ELSE exc' = exc /\ pc' = "eat"
    /\ UNCHANGED <<game, message, status, display, key, t0, eaten, ticks, coast, harness>>

\* lines 172-173
Check ==
    /\ pc = "check"
    /\ IF check_boundary(queue, max_size)
       THEN exc' = "SnakeDied" /\ pc' = "except"
       ELSE exc' = exc /\ pc' = "eat"
    /\ UNCHANGED <<game, message, status, display, key, t0, eaten, ticks, coast, harness>>

\* lines 175-179
EatStep ==
    /\ pc = "eat"
    /\ did_ate_bait(queue, bait) => eaten < MaxEats
    /\ pc' = "draw"
    /\ IF did_ate_bait(queue, bait)
       THEN /\ queue' = eat(queue, bait)
            /\ \E p \in create_bait(max_size) : bait' = p
            /\ current_speed' = increase_speed(current_speed)
            /\ current_score' = increase_score(current_score)
            /\ eaten' = eaten + 1
       ELSE UNCHANGED <<queue, bait, current_speed, current_score, eaten>>
    /\ UNCHANGED <<exc, max_size, direction, message, status, display, key, t0, ticks, coast, harness>>

\* screen.addstr(y, x, glyph) raises curses.error outside the window
InWindow(c, size) == c[1] \in 0..(size[1] - 1) /\ c[2] \in 0..(size[2] - 1)

\* lines 181-182
Draw ==
    /\ pc = "draw"
    /\ IF \A i \in 1..Len(queue) : InWindow(queue[i], max_size)
       THEN exc' = exc /\ pc' = "move"
       ELSE exc' = "curses.error" /\ pc' = "except"
    /\ UNCHANGED <<game, message, status, display, key, t0, eaten, ticks, coast, harness>>

\* line 184
Move ==
    /\ pc = "move"
    /\ LET r == move(queue, direction)
       IN  /\ queue' = r.queue
           /\ IF r.raised
              THEN exc' = "IndexError" /\ pc' = "except"
              ELSE exc' = exc /\ pc' = "poll"
    /\ UNCHANGED <<max_size, direction, bait, current_speed, current_score,
                   message, status, display, key, t0, eaten, ticks, coast, harness>>

\* the poll without the is_direction_allowed test
SteerUnchecked(ch, d) ==
    IF DirectionsGet(ch) # None THEN DirectionsGet(ch) ELSE d

\* lines 185-189: the direction after one key was polled
Steer(ch, d) ==
    LET next_direction == DirectionsGet(ch)
    IN  IF is_direction_allowed(next_direction, d) THEN next_direction ELSE d

\* from iteration limit + 1 on, only keys that leave the direction as it is
PollStep(limit) ==
    /\ pc = "poll"
    /\ pc' = "sleep"
    /\ \E k \in Keys \cup {NoKey} :
          /\ ticks > limit => Steer(k, direction) = direction
          /\ key' = k
          /\ direction' = Steer(k, direction)
    /\ coast' = IF direction' # direction THEN 0 ELSE coast
    /\ UNCHANGED <<exc, max_size, queue, bait, current_speed, current_score,
                   message, status, display, t0, eaten, ticks, harness>>

Poll == PollStep(MaxTicks)

\* lines 191-192
Sleep ==
    /\ pc = "sleep"
    /\ pc' = "render"
    /\ key' = NoKey
    /\ UNCHANGED <<exc, game, message, status, display, t0, eaten, ticks, coast, harness>>

\* Ctrl-C: KeyboardInterrupt is raised where main() stands. Inside the try it
\* goes to the except clauses; inside an except clause it abandons the clause
\* and is pending while the finally block runs; before the try and inside the
\* finally block it leaves main() at once
Interrupt ==
    /\ pc \in LoopPcs \cup {"start", "except", "finally"}
    /\ exc' = "KeyboardInterrupt"
    /\ pc' = IF pc \in LoopPcs THEN "except"
             ELSE IF pc = "except" THEN "finally"
             ELSE "propagate"
    /\ UNCHANGED <<game, message, status, display, key, t0, eaten, ticks, coast, harness>>

\* lines 194-201: the except clauses; any other exception passes through.
\* addstr wraps at the right margin, and every playground of Sizes has room
\* below its centre for either message
Except ==
    /\ pc = "except"
    /\ pc' = "finally"
    /\ message' = IF exc = "SnakeDied" THEN [kind |-> "died", score |-> current_score]
                  ELSE IF exc = "KeyboardInterrupt" THEN [kind |-> "quitting", score |-> 0]
                  ELSE message
    /\ exc' = IF exc \in {"SnakeDied", "KeyboardInterrupt"} THEN "none" ELSE exc
    /\ UNCHANGED <<game, status, display, key, t0, eaten, ticks, coast, harness>>

\* a return inside the finally block: the pending exception is dropped
FinallyReturns ==
    /\ pc = "finally"
    /\ pc' = "return"
    /\ UNCHANGED <<exc, game, message, status, display, key, t0, eaten, ticks, coast, harness>>

\* lines 202-205: refresh, the two-second pause, then return 0 or re-raise
Finally ==
    /\ pc = "finally"
    /\ pc' = IF exc = "none" THEN "return" ELSE "propagate"
    /\ UNCHANGED <<exc, game, message, status, display, key, t0, eaten, ticks, coast, harness>>

\* lines 208-209: curses.wrapper restores the terminal in its own finally and
\* hands main's result to exit(); an exception ends the process with a
\* traceback and status 1, a KeyboardInterrupt with 130
Wrapper ==
    /\ pc \in {"return", "propagate"}
    /\ pc' = "exited"
    /\ display' = "restored"
    /\ status' = IF pc = "return" THEN 0
                 ELSE IF exc = "KeyboardInterrupt" THEN 130 ELSE 1
    /\ UNCHANGED <<exc, game, message, key, t0, eaten, ticks, coast, harness>>

Next ==
    \/ Start
    \/ Render
    \/ Check
    \/ EatStep
    \/ Draw
    \/ Move
    \/ Poll
    \/ Sleep
    \/ Interrupt
    \/ Except
    \/ Finally
    \/ Wrapper

Spec == Init /\ [][Next]_vars

\* The ways out of the loop, under fairness. main() is sequential code: a
\* raised exception reaches its handler, the handler and the two-second
\* pause end, and curses.wrapper returns. Nothing is assumed of the keys or
\* of Ctrl-C
ExitTicks == 3

ExitRender == RenderStep(ExitTicks)

NextExit ==
    \/ Start
    \/ ExitRender
    \/ Check
    \/ EatStep
    \/ Draw
    \/ Move
    \/ Poll
    \/ Sleep
    \/ Interrupt
    \/ Except
    \/ Finally
    \/ Wrapper

SpecExit ==
    /\ Init
    /\ [][NextExit]_vars
    /\ WF_vars(Except)
    /\ WF_vars(Finally)
    /\ WF_vars(Wrapper)

----------------------------------------------------------------------------
(* The end-to-end scenario: a 20x20 playground and a snake of length 3 at  *)
(* the centre, heading right; the random bait may be the head's cell.      *)

ScenarioTicks == 2

InitScenario ==
    /\ pc = "start"
    /\ exc = "none"
    /\ max_size = <<20, 20>>
    /\ queue = SnakeQueue(3, center(max_size))
    /\ direction = DIRECTIONS["KEY_RIGHT"]
    /\ bait = None
    /\ current_speed = InitialSpeed
    /\ current_score = 0
    /\ message = NoMessage
    /\ status = -1
    /\ display = "curses"
    /\ coast = 0
    /\ key = NoKey
    /\ t0 = [queue |-> queue, direction |-> direction, bait |-> bait,
             score |-> current_score, speed |-> current_speed]
    /\ eaten = 0
    /\ ticks = 0
    /\ op = "main"
    /\ arg = None
    /\ ret = FALSE

ScenarioRender == RenderStep(ScenarioTicks)

NextScenario ==
    \/ Start
    \/ ScenarioRender
    \/ Check
    \/ EatStep
    \/ Draw
    \/ Move
    \/ Poll
    \/ Sleep
    \/ Interrupt
    \/ Except
    \/ Finally
    \/ Wrapper

SpecScenario == InitScenario /\ [][NextScenario]_vars

----------------------------------------------------------------------------
(* Method calls on arbitrary objects: one call, or eat() followed by move() *)

MaxLen == 3

UnitCells == (0..2) \X (0..2)
UnitSizes == {<<2, 2>>, <<3, 3>>, <<4, 4>>}

RECURSIVE SeqsUpTo(_, _)
\* the non-empty sequences over S of length at most n
SeqsUpTo(S, n) ==
    IF n = 0 THEN {}
    ELSE LET shorter == SeqsUpTo(S, n - 1)
         IN  {<<x>> : x \in S} \cup shorter
             \cup {Append(s, x) : s \in shorter, x \in S}

InitUnit ==
    /\ pc = "unit"
    /\ exc = "none"
    /\ max_size \in UnitSizes
    /\ queue \in SeqsUpTo(UnitCells, MaxLen)
    /\ direction \in DirectionSet
    /\ bait = None
    /\ current_speed = InitialSpeed
    /\ current_score = 0
    /\ message = NoMessage
    /\ status = -1
    /\ display = "none"
    /\ coast = 0
    /\ key = NoKey
    /\ t0 = [queue |-> queue, direction |-> direction, bait |-> bait,
             score |-> current_score, speed |-> current_speed]
    /\ eaten = 0
    /\ ticks = 0
    /\ op = "init"
    /\ arg = None
    /\ ret = FALSE

CallCheckBoundary ==
    /\ pc = "unit" /\ op = "init"
    /\ op' = "check_boundary"
    /\ ret' = check_boundary(queue, max_size)
    /\ UNCHANGED <<pc, exc, game, message, status, display, key, t0, eaten, ticks, coast, arg>>

CallMove ==
    /\ pc = "unit" /\ op \in {"init", "eat"}
    /\ op' = IF op = "init" THEN "move" ELSE "eat_move"
    /\ LET r == move(queue, direction)
       IN  /\ queue' = r.queue
           /\ exc' = IF r.raised THEN "IndexError" ELSE exc
    /\ UNCHANGED <<pc, max_size, direction, bait, current_speed, current_score,
                   message, status, display, key, t0, eaten, ticks, coast, arg, ret>>

CallEat ==
    /\ pc = "unit" /\ op = "init"
    /\ op' = "eat"
    /\ \E b \in UnitCells : arg' = b /\ queue' = eat(queue, b)
    /\ UNCHANGED <<pc, exc, max_size, direction, bait, current_speed, current_score,
                   message, status, display, key, t0, eaten, ticks, coast, ret>>

CallIsDirectionAllowed ==
    /\ pc = "unit" /\ op = "init"
    /\ op' = "is_direction_allowed"
    /\ \E c \in DirectionSet \cup {None} :
          arg' = c /\ ret' = is_direction_allowed(c, direction)
    /\ UNCHANGED <<pc, exc, game, message, status, display, key, t0, eaten, ticks, coast>>

NextUnit ==
    \/ CallCheckBoundary
    \/ CallMove
    \/ CallEat
    \/ CallIsDirectionAllowed

SpecUnit == InitUnit /\ [][NextUnit]_vars

----------------------------------------------------------------------------
(* Repeated increase_speed() on a fresh Gameplay                           *)

InitSpeed ==
    /\ pc = "unit"
    /\ exc = "none"
    /\ max_size = <<20, 20>>
    /\ queue = SnakeQueue(3, center(max_size))
    /\ direction = DIRECTIONS["KEY_RIGHT"]
    /\ bait = None
    /\ current_speed = InitialSpeed
    /\ current_score = 0
    /\ message = NoMessage
    /\ status = -1
    /\ display = "none"
    /\ coast = 0
    /\ key = NoKey
    /\ t0 = [queue |-> queue, direction |-> direction, bait |-> bait,
             score |-> current_score, speed |-> current_speed]
    /\ eaten = 0
    /\ ticks = 0
    /\ op = "init"
    /\ arg = None
    /\ ret = FALSE

\* t0 keeps the object as it was before the call
CallIncreaseSpeed ==
    /\ pc = "unit"
    /\ op' = "increase_speed"
    /\ t0' = Snapshot
    /\ current_speed' = increase_speed(current_speed)
    /\ UNCHANGED <<pc, exc, max_size, queue, direction, bait, current_score,
                   message, status, display, key, eaten, ticks, coast, arg, ret>>

NextSpeed == CallIncreaseSpeed

SpecSpeed == InitSpeed /\ [][NextSpeed]_vars

----------------------------------------------------------------------------
(* The claims                                                              *)

Neg(d) == <<-(d[1]), -(d[2])>>

\* C1: check_boundary() returns true exactly when the head equals some
\* non-head segment, or its row is 0 or rows-1, or its column is 0 or cols-1;
\* a head in column 0 gives true whatever the body is.
C1_CheckBoundaryIff ==
    op = "check_boundary" =>
        /\ ret <=> \/ \E i \in 2..Len(queue) : queue[i] = queue[1]
                   \/ queue[1][1] = 0 \/ queue[1][1] = max_size[1] - 1
                   \/ queue[1][2] = 0 \/ queue[1][2] = max_size[2] - 1
        /\ queue[1][2] = 0 => ret

\* a head in column 0 of a 4x4 playground, away from its two body segments
C1_Witness ==
    /\ op = "check_boundary" /\ ret
    /\ max_size = <<4, 4>> /\ queue = <<<<1, 0>>, <<1, 1>>, <<1, 2>>>>

\* the tick's own view of "the snake had died when this tick began"
DiedNow == exc = "SnakeDied" \/ message.kind = "died"

\* C2: each tick evaluates check_boundary() on the current head before eating
\* and before move(); when it is true the loop ends in that tick in the died
\* state, nothing is eaten, created, scored, sped up or moved from then on,
\* and the died message shows the score the tick began with.
C2_DiedBeforeEatAndMove ==
    [][/\ (pc = "check" /\ check_boundary(queue, max_size) /\ exc' # "KeyboardInterrupt")
            => (exc' = "SnakeDied" /\ pc' = "except" /\ UNCHANGED game)
       /\ pc' = "eat" => (pc = "check" /\ ~check_boundary(queue, max_size))
       /\ pc' = "draw" => pc = "eat"
       /\ pc' = "move" => pc = "draw"
       /\ (queue' # queue \/ current_score' # current_score
              \/ current_speed' # current_speed)
            => (pc \in {"eat", "move"} /\ ~check_boundary(t0.queue, max_size))
       /\ (bait' # bait /\ pc # "start")
            => (pc = "eat" /\ ~check_boundary(t0.queue, max_size))
       /\ DiedNow => (/\ DiedNow' \/ exc' = "KeyboardInterrupt"
                      /\ UNCHANGED game /\ pc' \notin LoopPcs)
       /\ message'.kind = "died"
            => (message'.score = t0.score /\ current_score' = t0.score
                /\ queue' = t0.queue /\ bait' = t0.bait)
      ]_vars

\* the snake died of a self-collision with its head on the bait
C2_Witness ==
    /\ message.kind = "died"
    /\ head(queue) = bait
    /\ eaten = 1 /\ message.score = 1

\* C3: a tick in which check_boundary() is false and the head is on the bait
\* ends with the snake one segment longer, a fresh random bait, score
\* max(1, 2*score) and speed 0.99*speed; from length 3, score 0, speed 0.1 on
\* a 20x20 playground that is length 4, score 1 and speed 0.099.
C3_EatingTick ==
    (pc = "sleep" /\ head(t0.queue) = t0.bait) =>
        /\ Len(queue) = Len(t0.queue) + 1
        /\ bait \in (1..(max_size[1] - 2)) \X (1..(max_size[2] - 2))
        /\ current_score = (IF 2 * t0.score > 1 THEN 2 * t0.score ELSE 1)
        /\ current_speed = FloatMul(t0.speed, FloatLiteral(99, 100, 53))
        /\ (Len(t0.queue) = 3 /\ t0.score = 0 /\ t0.speed = FloatLiteral(1, 10, 56))
            => (/\ Len(queue) = 4
                /\ current_score = 1
                /\ current_speed = FloatLiteral(99, 1000, 56))

\* the scenario's tick has ended: the first tick, the bait was under the head
C3_Witness ==
    /\ pc = "sleep" /\ ticks = 1
    /\ head(t0.queue) = t0.bait
    /\ Len(t0.queue) = 3 /\ t0.score = 0 /\ t0.speed = FloatLiteral(1, 10, 56)
    /\ max_size = <<20, 20>>
    /\ Len(queue) = 4

\* C4: one move() of a snake of length L >= 1 completes, keeps the length,
\* puts old head + direction at the front and drops the old tail, the other
\* segments staying in order.
C4_MoveKeepsLength ==
    op = "move" =>
        /\ exc = "none"
        /\ Len(queue) = Len(t0.queue)
        /\ queue[1] = Add(t0.queue[1], direction)
        /\ Tail(queue) = SubSeq(t0.queue, 1, Len(t0.queue) - 1)

\* C5: eat(bait) followed by move() leaves a snake of length L with L + 1
\* segments.
C5_EatThenMoveGrows ==
    op = "eat_move" => (exc = "none" /\ Len(queue) = Len(t0.queue) + 1)

\* the shortest snake ate and moved
C5_Witness ==
    /\ op = "eat_move"
    /\ Len(t0.queue) = 1
    /\ Len(queue) = 2

\* C6: with current direction d, is_direction_allowed(-d) is false,
\* is_direction_allowed(d) is true, so is it for the two perpendicular
\* directions, and is_direction_allowed(None) is false.
C6_DirectionAllowed ==
    op = "is_direction_allowed" =>
        /\ arg = Neg(direction) => ~ret
        /\ arg = direction => ret
        /\ (arg \in DirectionSet \ {direction, Neg(direction)}) => ret
        /\ arg = None => ~ret

\* heading right, asked about left
C6_Witness ==
    /\ op = "is_direction_allowed"
    /\ direction = <<0, 1>> /\ arg = <<0, -1>>
    /\ ~ret

\* C7: on a playground of at least 3x3, whenever a bait exists it lies in
\* rows 1..rows-2 and columns 1..cols-2, never on the border ring.
C7_BaitInside ==
    (max_size[1] >= 3 /\ max_size[2] >= 3 /\ bait # None) =>
        /\ 1 <= bait[1] /\ bait[1] <= max_size[1] - 2
        /\ 1 <= bait[2] /\ bait[2] <= max_size[2] - 2

\* a bait created inside the loop, in the last interior cell
C7_Witness ==
    /\ eaten = 1
    /\ bait = <<max_size[1] - 2, max_size[2] - 2>>

\* C8: the score starts at 0, is 1 after the first increase_score(), at least
\* 2 after the second, never decreases and is never negative.
C8_ScoreProgression ==
    /\ current_score = 0
    /\ [][/\ current_score' >= current_score
          /\ current_score' >= 0
          /\ eaten' = 1 => current_score' = 1
          /\ eaten' >= 2 => current_score' >= 2
          /\ current_score' # current_score => eaten' = eaten + 1
          ]_vars

\* two baits were eaten
C8_Witness == eaten = 2 /\ current_score = 2

\* the smallest value the speed reaches: 49 * 2^-1074
SpeedFloor == [m |-> <<49, 0, 0, 0, 0>>, e |-> MinExp]

\* C9 as stated: from 0.1, every increase_speed() strictly decreases the
\* speed and leaves it positive.
C9_SpeedStrictlyDecreases ==
    op = "increase_speed" =>
        (FloatLess(current_speed, t0.speed) /\ FloatPositive(current_speed))

\* C9 as amended: from 0.1, increase_speed() never increases the speed and
\* leaves it positive; it strictly decreases it from any value above
\* 49 * 2^-1074 and leaves that value as it is.
C9_SpeedDecreasesToFloor ==
    op = "increase_speed" =>
        /\ FloatPositive(current_speed)
        /\ ~FloatLess(t0.speed, current_speed)
        /\ IF t0.speed = SpeedFloor
           THEN current_speed = SpeedFloor
           ELSE FloatLess(current_speed, t0.speed)
        /\ ~FloatLess(current_speed, SpeedFloor)

\* a call made at the floor
C9_Witness ==
    /\ op = "increase_speed"
    /\ t0.speed = SpeedFloor
    /\ current_speed = SpeedFloor

\* the direction step 7 must leave, told from the key alone
Steered(ch, d) ==
    CASE ch = "KEY_UP" -> IF d = <<1, 0>> THEN d ELSE <<-1, 0>>
      [] ch = "KEY_DOWN" -> IF d = <<-1, 0>> THEN d ELSE <<1, 0>>
      [] ch = "KEY_LEFT" -> IF d = <<0, 1>> THEN d ELSE <<0, -1>>
      [] ch = "KEY_RIGHT" -> IF d = <<0, -1>> THEN d ELSE <<0, 1>>
      [] OTHER -> d

\* C10: step 7 polls one key after move(); a directional key whose direction
\* is allowed becomes the direction, no key, another key or the opposite
\* direction leave it; body, bait, score and speed are untouched and the
\* direction is always one of the four unit vectors.
C10_PollFrame ==
    /\ direction \in DirectionSet
    /\ [][/\ direction' \in DirectionSet
          /\ pc' = "poll" => pc = "move"
          /\ pc' = "sleep" =>
                /\ pc = "poll"
                /\ direction' = Steered(key', direction)
                /\ UNCHANGED <<queue, bait, current_score, current_speed>>
          /\ direction' # direction => (pc = "poll" /\ pc' = "sleep")
          ]_vars

\* heading right, the up key was polled and taken
C10_Witness ==
    /\ pc = "sleep"
    /\ key = "KEY_UP"
    /\ t0.direction = <<0, 1>>
    /\ direction = <<-1, 0>>

----------------------------------------------------------------------------
(* Coasting: keys may turn the snake in the first SteerTicks iterations,   *)
(* after that no key changes the direction, and no interrupt arrives. The  *)
(* loop is sequential code, so its next statement is always executed.      *)

SteerTicks == 2

CoastRender == RenderStep(SteerTicks + max_size[1] + max_size[2])

CoastPoll == PollStep(SteerTicks)

NextCoast ==
    \/ Start
    \/ CoastRender
    \/ Check
    \/ EatStep
    \/ Draw
    \/ Move
    \/ CoastPoll
    \/ Sleep
    \/ Except
    \/ Finally
    \/ Wrapper

\* ENABLED EatStep, written out
EatStepEnabled == pc = "eat" /\ (did_ate_bait(queue, bait) => eaten < MaxEats)

\* weak fairness of every step of the loop and of the way out; for EatStep
\* it is written out with EatStepEnabled
SpecCoast ==
    /\ Init
    /\ [][NextCoast]_vars
    /\ WF_vars(Start \/ CoastRender \/ Check \/ Draw \/ Move \/ CoastPoll \/ Sleep)
    /\ WF_vars(Except \/ Finally \/ Wrapper)
    /\ []<>(~EatStepEnabled) \/ []<><<EatStep>>_vars

----------------------------------------------------------------------------
(* the start-up geometry                                                   *)

\* strictly inside the ring of walls
Interior(c, size) ==
    /\ c[1] \in 1..(size[1] - 2)
    /\ c[2] \in 1..(size[2] - 2)

\* the snake main() seeds on a playground of this size
SeededSnake(size) == SnakeQueue(InitLength, center(size))

\* no cell for a bait, or a seeded segment on or beyond a wall
TooSmall(size) ==
    \/ size[1] < 3
    \/ size[2] < 3
    \/ \E i \in 1..InitLength : ~Interior(SeededSnake(size)[i], size)

\* C11: on a playground with no cell for a bait (rows < 3 or columns < 3) or
\* too small to seed the length-15 snake inside the walls, main() fails before
\* the first loop iteration: the loop is never entered, and no exception
\* arises in the middle of a tick.
C11_TooSmallFailsAtStartup ==
    TooSmall(max_size) =>
        /\ pc \notin LoopPcs
        /\ ticks = 0
        /\ exc \notin {"curses.error", "IndexError", "SnakeDied"}

----------------------------------------------------------------------------
(* Snake(direction, length, position) for small lengths and positions      *)

MaxSeed == 4
SeedCells == (0..4) \X (0..4)

\* no snake yet
InitSeed ==
    /\ pc = "unit"
    /\ exc = "none"
    /\ max_size = <<20, 20>>
    /\ queue = <<>>
    /\ direction \in DirectionSet
    /\ bait = None
    /\ current_speed = InitialSpeed
    /\ current_score = 0
    /\ message = NoMessage
    /\ status = -1
    /\ display = "none"
    /\ coast = 0
    /\ key = NoKey
    /\ t0 = [queue |-> queue, direction |-> direction, bait |-> bait,
             score |-> current_score, speed |-> current_speed]
    /\ eaten = 0
    /\ ticks = 0
    /\ op = "init"
    /\ arg = None
    /\ ret = FALSE

\* arg keeps the length and the position the constructor was given
CallSnake ==
    /\ pc = "unit"
    /\ op = "init"
    /\ op' = "Snake"
    /\ \E length \in 1..MaxSeed, position \in SeedCells :
          /\ arg' = [length |-> length, position |-> position]
          /\ queue' = SnakeQueue(length, position)
    /\ UNCHANGED <<pc, exc, max_size, direction, bait, current_speed, current_score,
                   message, status, display, key, t0, eaten, ticks, coast, ret>>

NextSeed == CallSnake

SpecSeed == InitSeed /\ [][NextSeed]_vars

\* squared distance of two cells
Dist(a, b) == (a[1] - b[1]) * (a[1] - b[1]) + (a[2] - b[2]) * (a[2] - b[2])

\* length segments on one row, in consecutive columns, no two on one cell
StraightLine(q, length) ==
    /\ Len(q) = length
    /\ \A i \in 1..Len(q) : q[i][1] = q[1][1]
    /\ \A i \in 1..(Len(q) - 1) : q[i][2] - q[i + 1][2] \in {1, -1}
    /\ \A i, j \in 1..Len(q) : q[i] = q[j] => i = j

\* C12 as stated: a constructed snake has exactly length segments on one row
\* in consecutive columns, no two on the same cell, and its head is the
\* segment nearest to the position it was given.
C12_HeadNearest ==
    op = "Snake" =>
        /\ StraightLine(queue, arg.length)
        /\ \A i \in 1..Len(queue) :
              Dist(head(queue), arg.position) <= Dist(queue[i], arg.position)

\* C12 amended: a constructed snake has exactly length segments on the row
\* below the position, in consecutive columns, no two on the same cell; its
\* head is position + (1, length), the segment farthest from the position,
\* and its tail position + (1, 1), the nearest.
C12_HeadFarthest ==
    op = "Snake" =>
        /\ StraightLine(queue, arg.length)
        /\ head(queue) = Add(arg.position, <<1, arg.length>>)
        /\ queue[Len(queue)] = Add(arg.position, <<1, 1>>)
        /\ \A i \in 1..Len(queue) :
              /\ Dist(head(queue), arg.position) >= Dist(queue[i], arg.position)
              /\ Dist(queue[Len(queue)], arg.position) <= Dist(queue[i], arg.position)
              /\ i > 1 => Dist(head(queue), arg.position) > Dist(queue[i], arg.position)

\* a snake of three segments built at (2, 2): its head is at (3, 5)
C12_Witness ==
    /\ op = "Snake"
    /\ arg = [length |-> 3, position |-> <<2, 2>>]
    /\ queue = <<<<3, 5>>, <<3, 4>>, <<3, 3>>>>

----------------------------------------------------------------------------
(* leaving the loop                                                        *)

DiedMessage == [kind |-> "died", score |-> current_score]
QuitMessage == [kind |-> "quitting", score |-> 0]

\* C13 as stated: however the loop is left, by a collision or by an interrupt
\* at any point of a tick, the matching end message is shown, then the pause
\* is taken, and the process ends with the display restored; after a
\* collision it ends with exit status 0.
C13_MessagePauseExit ==
    /\ (pc = "except" /\ exc = "SnakeDied")
          ~> (/\ pc = "exited" /\ display = "restored"
              /\ message = DiedMessage /\ status = 0)
    /\ (pc = "except" /\ exc = "KeyboardInterrupt")
          ~> (/\ pc = "exited" /\ display = "restored"
              /\ message = QuitMessage)

\* C13 amended: when the loop is left by a collision or by an interrupt, the
\* matching message is shown unless a further interrupt arrives first; main()
\* returns only after the message and the whole pause, and then the exit
\* status is 0 on both paths; a further interrupt during the message or the
\* pause, or an exception neither clause catches, leaves main() with the
\* exception and another status. In every case the process ends, and it ends
\* with the display restored.
C13_ExitRestoresDisplay ==
    /\ [][/\ (pc = "except" /\ exc = "SnakeDied")
               => \/ pc' = "finally" /\ exc' = "none" /\ message' = DiedMessage
                  \/ pc' = "finally" /\ exc' = "KeyboardInterrupt" /\ message' = message
          /\ (pc = "except" /\ exc = "KeyboardInterrupt")
               => \/ pc' = "finally" /\ exc' = "none" /\ message' = QuitMessage
                  \/ pc' = "finally" /\ exc' = "KeyboardInterrupt" /\ message' = message
          /\ pc' = "return"
               => /\ pc = "finally" /\ exc = "none"
                  /\ message \in {DiedMessage, QuitMessage}
          /\ pc' = "exited"
               => /\ pc \in {"return", "propagate"}
                  /\ display' = "restored"
                  /\ status' = 0 <=> pc = "return"
         ]_vars
    /\ (pc \in {"except", "finally", "return", "propagate"})
          ~> (pc = "exited" /\ display = "restored")

\* a game over that ran to its end: message, pause, return, status 0
C13_Witness ==
    /\ pc = "exited" /\ status = 0 /\ display = "restored"
    /\ message = DiedMessage
    /\ ticks > 1

----------------------------------------------------------------------------
(* bait and snake                                                          *)

\* C14: create_bait() does not look at the snake: whenever a bait is created,
\* every interior cell under the head or the body is among the cells it may
\* return; and with the bait on a snake segment the game goes on as it would
\* otherwise: a bait that is not under the head at the start of a tick is not
\* eaten or replaced in that tick, the score stays, the loop raises no
\* exception of its own, and the snake dies only where check_boundary() holds.
C14_BaitIgnoresSnake ==
    /\ pc \in {"start", "eat"}
          => \A i \in 1..Len(queue) :
                Interior(queue[i], max_size) => queue[i] \in create_bait(max_size)
    /\ (pc \in {"draw", "move", "poll", "sleep"} /\ head(t0.queue) # t0.bait)
          => (bait = t0.bait /\ current_score = t0.score)
    /\ pc \in LoopPcs => exc = "none"
    /\ exc = "SnakeDied" => check_boundary(queue, max_size)

\* the bait created in this tick lies under a body segment, and the tick has
\* drawn, moved and polled since
C14_Witness ==
    /\ pc = "sleep" /\ exc = "none"
    /\ head(t0.queue) = t0.bait
    /\ \E i \in 2..Len(queue) : queue[i] = bait
    /\ ~check_boundary(queue, max_size)

\* C15: in a tick that eats, eat() appends a segment at the tail with the
\* head's coordinate, and the same tick's move() removes exactly that
\* segment: after the tick the queue is the new head followed by the whole
\* pre-tick queue, old tail included. So whenever check_boundary() is
\* evaluated the appended segment is gone, and the queue the next tick checks
\* differs from the pre-tick queue only by the new head: eating alone puts no
\* segment under the head.
C15_EatenSegmentPopped ==
    /\ (pc \in {"draw", "move"} /\ head(t0.queue) = t0.bait)
          => queue = t0.queue \o <<head(t0.queue)>>
    /\ (pc \in {"poll", "sleep", "render"} /\ head(t0.queue) = t0.bait)
          => /\ queue = <<Add(head(t0.queue), t0.direction)>> \o t0.queue
             /\ body(queue) = t0.queue
             /\ check_boundary(queue, max_size)
                   <=> \/ \E i \in 1..Len(t0.queue) : t0.queue[i] = head(queue)
                       \/ head(queue)[1] \in {0, max_size[1] - 1}
                       \/ head(queue)[2] \in {0, max_size[2] - 1}
    /\ pc = "check" => Len(queue) = InitLength + eaten

\* the second eating tick in a row has ended and the loop is back at its top
C15_Witness ==
    /\ pc = "render" /\ ticks = 2 /\ eaten = 2
    /\ head(t0.queue) = t0.bait
    /\ Len(queue) = InitLength + 2

\* C16: when the game starts with every segment of the snake strictly inside
\* the ring of walls, the head is inside the grid (row 0..rows-1, column
\* 0..cols-1) in every state of the loop, and wherever the snake is drawn
\* every segment, the head included, is strictly inside the walls.
C16_HeadInsideGrid ==
    \/ /\ pc \in LoopPcs => InWindow(head(queue), max_size)
       /\ pc = "draw" => \A i \in 1..Len(queue) : Interior(queue[i], max_size)
       /\ exc \notin {"curses.error", "IndexError"}
    \/ \E i \in 1..InitLength : ~Interior(SeededSnake(max_size)[i], max_size)

\* the snake is drawn with its head in the top interior row, next to the wall
C16_Witness ==
    /\ pc = "draw"
    /\ \A i \in 1..InitLength : Interior(SeededSnake(max_size)[i], max_size)
    /\ head(queue)[1] = 1
    /\ ticks > 2

Sub(a, b) == <<a[1] - b[1], a[2] - b[2]>>

\* C17: the direction a move() uses is never the exact opposite of the
\* direction the move() before it used. The head minus the segment behind it
\* is the direction of the last move(), so this says: move() pushes the new
\* head one step in self.direction, and never back onto the segment behind
\* the old head.
C17_NoReversal ==
    [][(pc = "move" /\ pc' = "poll")
          => /\ Sub(queue'[1], queue'[2]) = direction
             /\ ticks > 1 => direction # Neg(Sub(queue[1], queue[2]))
             /\ queue'[1] # queue[2]
      ]_vars

\* a move() upwards has followed a move() to the right
C17_Witness ==
    /\ pc = "poll" /\ ticks = 2
    /\ Sub(queue[1], queue[2]) = <<-1, 0>>
    /\ Sub(queue[2], queue[3]) = <<0, 1>>

\* 0.1 multiplied n times by 0.99, in the arithmetic of the speed field
RECURSIVE SpeedAfter(_)
SpeedAfter(n) == IF n = 0 THEN InitialSpeed ELSE FloatMul(SpeedAfter(n - 1), SPEED_MULTIPLIER)

\* SCORE_MULTIPLIER to the power n
RECURSIVE Pow(_)
Pow(n) == IF n = 0 THEN 1 ELSE SCORE_MULTIPLIER * Pow(n - 1)

Longest(size) == IF size[1] > size[2] THEN size[1] ELSE size[2]

\* C19: from a state of the loop with the head inside the grid, once no key
\* changes the direction any more and no interrupt arrives, the loop ends
\* with game over, within max(rows, cols) iterations: the loop never begins
\* more than max(rows, cols) iterations in a row in one direction, the way
\* out of such a run is SnakeDied, and every such run takes it (or is cut at
\* MaxEats baits).
C19_CoastingEnds ==
    /\ []((pc \in LoopPcs /\ InWindow(head(queue), max_size))
             => coast <= Longest(max_size))
    /\ []((pc \notin LoopPcs /\ ticks > 0 /\ InWindow(head(queue), max_size))
             => (exc = "SnakeDied" \/ message = DiedMessage))
    /\ (pc \in LoopPcs /\ InWindow(head(queue), max_size))
          ~> \/ pc = "exited" /\ message = DiedMessage
             \/ pc = "eat" /\ did_ate_bait(queue, bait) /\ eaten = MaxEats

\* the longest run: the snake is about to die in column 0 in the 35th
\* iteration since it turned left
C19_Witness ==
    /\ pc = "check" /\ coast = Longest(max_size) - 1
    /\ head(queue)[2] = 0
    /\ direction = <<0, -1>>

====
